---------------------------- MODULE Spec2Model ----------------------------
(***************************************************************************)
(* FraudDetector (src/fraud_detector.py): rule scoring, anomaly scoring,   *)
(* score fusion, explanations and duplicate-identity alerts.               *)
(*                                                                         *)
(* A DataFrame is a record [columns, rows, risk_score, fraud_indicators,   *)
(* risk_level]: columns is the set of column names besides amount, rows    *)
(* the sequence of input rows in index order, and the last three are the   *)
(* annotation columns (<<>> while the column does not exist).  A field of  *)
(* a row whose column is absent holds NA.  Amounts are whole currency      *)
(* units; scores are integers.                                             *)
(***************************************************************************)
EXTENDS Integers, Sequences, FiniteSets, TLC

VARIABLES
    df,          \* the caller's batch (the DataFrame object the caller holds)
    model,       \* self.model, the IsolationForest of the instance
    ret,         \* outcome of the last detect_fraud call
    scores,      \* per-row rule contributions of the last _apply_rules call
    prev,        \* the rule contributions of a row before its amount was raised
    row,         \* argument of the last _explain_fraud call
    reasons,     \* result of the last _explain_fraud call
    duplicates   \* result of the last detect_duplicates call

vars == <<df, model, ret, scores, prev, row, reasons, duplicates>>

NA == "NA"

----------------------------------------------------------------------------
(* Bounds of the exploration *)

\* rows of a batch scored by detect_fraud
MaxRows == 3
\* rows of a batch given to _apply_rules alone
MaxRuleRows == 6
\* rows of a scored batch given to detect_duplicates
MaxDupRows == 3

----------------------------------------------------------------------------
(* Small helpers *)

Min(a, b) == IF a < b THEN a ELSE b

Max(a, b) == IF a > b THEN a ELSE b

Range(s) == {s[i] : i \in DOMAIN s}


EmptyFrame(cols) ==
    [columns |-> cols, rows |-> <<>>, risk_score |-> <<>>,
     fraud_indicators |-> <<>>, risk_level |-> <<>>]

Amounts(frame) == [i \in DOMAIN frame.rows |-> frame.rows[i].amount]

----------------------------------------------------------------------------
(* _apply_rules *)

HighAmountBonus == 30
VeryHighBonus == 40
BurstMinCount == 2
BurstStep == 20
BurstCap == 30
AccountFreq == 5
AccountBonus == 25
RoundModulus == 1000
RoundBonus == 15
ScoreFloor == 0
ScoreCeil == 100

\* The k-th smallest (k from 0) of a non-empty sequence of numbers.
KthSmallest(a, k) ==
    CHOOSE v \in Range(a) :
        /\ Cardinality({j \in DOMAIN a : a[j] < v}) <= k
        /\ k < Cardinality({j \in DOMAIN a : a[j] <= v})

\* Series.quantile(q) with pandas' default linear interpolation, times 100:
\* q is given in percent, the position is q*(n-1)/100, and the value is
\* lo + (hi - lo) * fraction.  Kept times 100 so that it stays an integer.
Quantile100(a, q) ==
    LET n   == Len(a)
        pos == q * (n - 1)
        lo  == pos \div 100
        rem == pos % 100
        hi  == Min(lo + 1, n - 1)
        vlo == KthSmallest(a, lo)
        vhi == KthSmallest(a, hi)
    IN  100 * vlo + (vhi - vlo) * rem

\* df['amount'] > threshold
Above(amount, threshold100) == 100 * amount > threshold100

\* len(txns) for the beneficiary of row i
BeneficiaryCount(frame, i) ==
    Cardinality({j \in DOMAIN frame.rows :
        frame.rows[j].beneficiary_id = frame.rows[i].beneficiary_id})

\* account_counts[account of row i]
AccountCount(frame, i) ==
    Cardinality({j \in DOMAIN frame.rows :
        frame.rows[j].account_number = frame.rows[i].account_number})

BurstBonusMax(count) == Max(BurstStep * (count - 1), BurstCap)

\* min(20 * (len(txns) - 1), 30)
BurstBonus(count) == Min(BurstStep * (count - 1), BurstCap)

\* Rule 1: amount above the 95th percentile of the batch
Rule1(frame, i) ==
    IF Above(frame.rows[i].amount, Quantile100(Amounts(frame), 95))
    THEN HighAmountBonus ELSE 0

Rule2Low(frame, i) ==
    IF Above(frame.rows[i].amount, Quantile100(Amounts(frame), 99))
    THEN VeryHighBonus - 10 ELSE 0

\* Rule 2: amount above the 99th percentile of the batch
Rule2(frame, i) ==
    IF Above(frame.rows[i].amount, Quantile100(Amounts(frame), 99))
    THEN VeryHighBonus ELSE 0

\* Rule 3: more than two transactions of the same beneficiary; the rule runs
\* only when the batch has both a beneficiary_id and a timestamp column.
Rule3(frame, i) ==
    IF /\ "beneficiary_id" \in frame.columns
       /\ "timestamp" \in frame.columns
       /\ BeneficiaryCount(frame, i) > BurstMinCount
    THEN BurstBonus(BeneficiaryCount(frame, i)) ELSE 0

\* Rule 4: account appearing more than five times
Rule4(frame, i) ==
    IF /\ "account_number" \in frame.columns
       /\ AccountCount(frame, i) > AccountFreq
    THEN AccountBonus ELSE 0

\* Rule 5: amount an exact multiple of 1000
Rule5(frame, i) ==
    IF frame.rows[i].amount % RoundModulus = 0 THEN RoundBonus ELSE 0

\* scores.clip(0, 100)
Clip(x) == Max(ScoreFloor, Min(x, ScoreCeil))

\* The contributions row i collects in _apply_rules and its clipped total.
RuleTrace(frame, i) ==
    LET r1 == Rule1(frame, i)
        r2 == Rule2(frame, i)
        r3 == Rule3(frame, i)
        r4 == Rule4(frame, i)
        r5 == Rule5(frame, i)
    IN  [high |-> r1, very_high |-> r2, burst |-> r3, account |-> r4,
         round |-> r5, total |-> Clip(r1 + r2 + r3 + r4 + r5)]

\* _apply_rules(df): the Series of clipped rule scores, in index order
_apply_rules(frame) ==
    [i \in DOMAIN frame.rows |-> RuleTrace(frame, i).total]


----------------------------------------------------------------------------
(* Rows of a batch, and the values the unused parts of the state hold *)

Timestamp == "2025-01-01 00:00"

ZeroTrace ==
    [high |-> 0, very_high |-> 0, burst |-> 0, account |-> 0, round |-> 0,
     total |-> 0]

NoPrev == [idx |-> 0, amount |-> 0, above99 |-> FALSE, trace |-> ZeroTrace]

NoRow ==
    [amount |-> 0, scheme |-> NA, duplicate_flag |-> NA, ml_score |-> 0,
     called |-> FALSE]

\* A row of a batch; the value of a column the batch does not have is NA.
MakeRow(cols, amount, beneficiary, account, scheme, region, flag) ==
    [amount |-> amount,
     beneficiary_id |-> IF "beneficiary_id" \in cols THEN beneficiary ELSE NA,
     account_number |-> IF "account_number" \in cols THEN account ELSE NA,
     scheme |-> IF "scheme" \in cols THEN scheme ELSE NA,
     region |-> IF "region" \in cols THEN region ELSE NA,
     timestamp |-> IF "timestamp" \in cols THEN Timestamp ELSE NA,
     duplicate_flag |-> IF "duplicate_flag" \in cols THEN flag ELSE NA]

Beneficiaries == <<"B1", "B2">>
Accounts == <<"A1", "A2">>

----------------------------------------------------------------------------
(* __init__ and _apply_ml_detection *)

Unfitted == [fitted |-> FALSE, X |-> <<>>, seed |-> 0]

\* self.model = IsolationForest(contamination=0.1, random_state=42)
FreshModel == [contamination |-> "0.1", random_state |-> 42, estimators_ |-> Unfitted]

\* The index of the first row holding value v
FirstIndex(values, v) ==
    CHOOSE i \in DOMAIN values :
        values[i] = v /\ \A j \in DOMAIN values : values[j] = v => i <= j

\* {value: i for i, value in enumerate(column.unique())} mapped over the
\* column: a value's code is the number of distinct values first seen before it.
CategoryCodes(values) ==
    [i \in DOMAIN values |->
        Cardinality({values[j] : j \in 1..(FirstIndex(values, values[i]) - 1)})]

\* features_df: amount, and scheme_code, region_code and the timestamp as
\* nanoseconds since the epoch for the columns the batch has.  The converted
\* timestamp is held as the term epoch_ns(timestamp).
Features(frame) ==
    LET scheme_code == CategoryCodes([i \in DOMAIN frame.rows |-> frame.rows[i].scheme])
        region_code == CategoryCodes([i \in DOMAIN frame.rows |-> frame.rows[i].region])
    IN  [i \in DOMAIN frame.rows |->
            [amount |-> frame.rows[i].amount,
             scheme_code |-> IF "scheme" \in frame.columns THEN scheme_code[i] ELSE -1,
             region_code |-> IF "region" \in frame.columns THEN region_code[i] ELSE -1,
             timestamp |-> IF "timestamp" \in frame.columns
                           THEN [epoch_ns |-> frame.rows[i].timestamp]
                           ELSE [epoch_ns |-> NA]]]

\* What the library calls inside the try block do: both succeed, fit_predict
\* raises, or fit_predict succeeds and score_samples raises.
LibOutcomes == {"ok", "fit_raises", "score_raises"}

FitWarm(m, X) ==
    IF m.estimators_.fitted THEN m
    ELSE [m EXCEPT !.estimators_ = [fitted |-> TRUE, X |-> X, seed |-> m.random_state]]

\* self.model.fit_predict(features_df): the forest is built anew from the
\* features by a generator seeded with the integer random_state; what was
\* fitted before is dropped.
Fit(m, X) ==
    [m EXCEPT !.estimators_ = [fitted |-> TRUE, X |-> X, seed |-> m.random_state]]

FallbackArray(frame) ==
    [kind |-> "ndarray", values |-> [i \in DOMAIN frame.rows |-> 0]]

\* except: return pd.Series(0, index=df.index)
Fallback(frame) ==
    [kind |-> "Series", values |-> [i \in DOMAIN frame.rows |-> 0]]

\* The value returned when nothing raises: the numpy array
\* abs(normalized * (predictions == -1)).clip(0, 100).astype(int).  Its
\* entries are fixed by the fitted forest and the features scored, and are
\* held as that pair.
MlArray(forest, X) ==
    [kind |-> "ndarray", values |-> [forest |-> forest, scored |-> X]]

\* _apply_ml_detection(df): the scores returned and self.model afterwards
_apply_ml_detection(m, frame, lib) ==
    LET X == Features(frame)
    IN  CASE lib = "fit_raises" ->
                [model |-> m, scores |-> Fallback(frame)]
          [] lib = "score_raises" ->
                [model |-> Fit(m, X), scores |-> Fallback(frame)]
          [] OTHER ->
                [model |-> Fit(m, X),
                 scores |-> MlArray(Fit(m, X).estimators_, X)]

----------------------------------------------------------------------------
(* _explain_fraud *)

HighAmountLimit == 100000
NregaLimit == 50000
PdsLimit == 10000
MlReasonLimit == 40

ReasonIf(cond, reason) == IF cond THEN <<reason>> ELSE <<>>

ExplainRoundFirst(r, rule_score, ml_score) ==
    LET found ==
            ReasonIf(r.amount > HighAmountLimit, "high_amount")
            \o ReasonIf(r.duplicate_flag = "True", "duplicate")
            \o ReasonIf(r.scheme = "NREGA" /\ r.amount > NregaLimit, "nrega")
            \o ReasonIf(r.scheme = "PDS" /\ r.amount > PdsLimit, "pds")
            \o ReasonIf(r.amount % RoundModulus = 0, "round")
            \o ReasonIf(ml_score > MlReasonLimit, "ml")
    IN  IF found = <<>> THEN <<"default">> ELSE found

\* The reasons appended, in order; the returned text is their lines joined
\* by newlines.  rule_score is passed and not read.
_explain_fraud(r, rule_score, ml_score) ==
    LET found ==
            ReasonIf(r.amount > HighAmountLimit, "high_amount")
            \o ReasonIf(r.duplicate_flag = "True", "duplicate")
            \o ReasonIf(r.scheme = "NREGA" /\ r.amount > NregaLimit, "nrega")
            \o ReasonIf(r.scheme = "PDS" /\ r.amount > PdsLimit, "pds")
            \o ReasonIf(ml_score > MlReasonLimit, "ml")
            \o ReasonIf(r.amount % RoundModulus = 0, "round")
    IN  IF found = <<>> THEN <<"default">> ELSE found

----------------------------------------------------------------------------
(* detect_fraud *)

MediumLimit == 50
HighLimit == 75

RiskLevelShifted(x) ==
    IF x < MediumLimit + 5 THEN "Low" ELSE IF x < HighLimit THEN "Medium" ELSE "High"

\* 'Low' if x < 50 else ('Medium' if x < 75 else 'High')
RiskLevel(x) ==
    IF x < MediumLimit THEN "Low" ELSE IF x < HighLimit THEN "Medium" ELSE "High"

\* (rule_score * 0.6 + ml_score * 0.4).astype(int).  Rule scores are sums of
\* 30, 40, 30, 25 and 15, hence multiples of 5, for which the double
\* arithmetic and the truncation give exactly this integer.
RiskScore(rule_score, ml_score) == (6 * rule_score + 4 * ml_score) \div 10

DfAlias(ref) == ref

\* results = df.copy(): a new object
DfCopy(ref) == "copy"

Annotations == {"risk_score", "fraud_indicators", "risk_level"}

\* The body of detect_fraud on the object `results`.  With ml_scores a
\* Series every row is annotated and results is returned.  With ml_scores a
\* numpy array the risk_score column is assigned (its values hang on the
\* array's entries and are not held) and the explanation step raises
\* AttributeError, since an ndarray has no get().
DetectFraud(m, results, lib) ==
    LET rule_scores == _apply_rules(results)
        ml          == _apply_ml_detection(m, results, lib)
        ml_scores   == ml.scores
        risk        == [i \in DOMAIN results.rows |->
                            RiskScore(rule_scores[i], ml_scores.values[i])]
    IN  IF ml_scores.kind = "Series"
        THEN [status |-> "returned",
              exception |-> NA,
              model |-> ml.model,
              rule_scores |-> rule_scores,
              ml_scores |-> ml_scores,
              frame |-> [results EXCEPT
                  !.columns = @ \cup Annotations,
                  !.risk_score = risk,
                  !.fraud_indicators =
                      [i \in DOMAIN results.rows |->
                          _explain_fraud(results.rows[i], rule_scores[i],
                                         ml_scores.values[i])],
                  !.risk_level = [i \in DOMAIN results.rows |-> RiskLevel(risk[i])]]]
        ELSE [status |-> "raised",
              exception |-> "AttributeError",
              model |-> ml.model,
              rule_scores |-> rule_scores,
              ml_scores |-> ml_scores,
              frame |-> [results EXCEPT !.columns = @ \cup {"risk_score"}]]

\* What the caller sees of a call
Outcome(result) ==
    [status |-> result.status, exception |-> result.exception,
     rule_scores |-> result.rule_scores, ml_scores |-> result.ml_scores,
     frame |-> IF result.status = "returned" THEN result.frame ELSE EmptyFrame({})]

NoCall == [status |-> "none", refit |-> FALSE, lib |-> NA, out |-> NA]

\* One call of detect_fraud on the caller's batch, which may have been scored
\* before.  ret.refit records whether the instance's model had been fitted by
\* an earlier call.
detect_fraud(lib) ==
    /\ df.rows # <<>>
    /\ LET results_ref == DfCopy("df")
           result      == DetectFraud(model, df, lib)
       IN  /\ ret' = [status |-> result.status, refit |-> model.estimators_.fitted,
                      lib |-> lib, out |-> Outcome(result)]
           /\ model' = result.model
           /\ df' = IF results_ref = "df" THEN result.frame ELSE df
    /\ UNCHANGED <<scores, prev, row, reasons, duplicates>>

MainColumns == {"beneficiary_id", "timestamp", "account_number", "scheme", "region"}
\* The optional columns of the batches scored: none, each rule's and each
\* feature's columns alone, and all of them.
MainColumnSets ==
    {{}, {"beneficiary_id"}, {"timestamp"}, {"beneficiary_id", "timestamp"},
     {"account_number"}, {"scheme"}, {"scheme", "region"}, MainColumns}
MainAmounts == {1500, 120000}
MainSchemes == {"NREGA", "Pension"}

MainRows(cols) ==
    {MakeRow(cols, a, b, "A1", s, "North", NA) :
        a \in MainAmounts, b \in Range(Beneficiaries), s \in MainSchemes}

\* The caller appends a row to its batch; an earlier result is dropped.
AddRow(r) ==
    /\ Len(df.rows) < MaxRows
    /\ df' = [df EXCEPT !.rows = Append(@, r)]
    /\ ret' = NoCall
    /\ UNCHANGED <<model, scores, prev, row, reasons, duplicates>>

Init ==
    /\ df \in {EmptyFrame(c) : c \in MainColumnSets}
    /\ model = FreshModel
    /\ ret = NoCall
    /\ scores = <<>>
    /\ prev = NoPrev
    /\ row = NoRow
    /\ reasons = <<>>
    /\ duplicates = <<>>

Next ==
    \/ \E r \in MainRows(df.columns) : AddRow(r)
    \/ \E lib \in LibOutcomes : detect_fraud(lib)

Spec == Init /\ [][Next]_vars

----------------------------------------------------------------------------
(* detect_duplicates *)

DuplicateMinCount == 1
DuplicateRiskLimit == 50

\* A missing value in a column the batch has
NaN == "nan"

RowsOf(frame, b) == {j \in DOMAIN frame.rows : frame.rows[j].beneficiary_id = b}

\* (beneficiary_txns['risk_score'] >= 50).sum()
HighRiskCount(frame, b) ==
    Cardinality({j \in RowsOf(frame, b) : frame.risk_score[j] >= DuplicateRiskLimit})

HighRiskCountStrict(frame, b) ==
    Cardinality({j \in RowsOf(frame, b) : frame.risk_score[j] > DuplicateRiskLimit})

RECURSIVE SumAmounts(_, _)
SumAmounts(frame, js) ==
    IF js = {} THEN 0
    ELSE LET j == CHOOSE x \in js : TRUE
         IN  frame.rows[j].amount + SumAmounts(frame, js \ {j})

\* One appended dictionary.  Total Amount is the sum that the code renders
\* with a currency sign and thousands separators.
Alert(frame, b) ==
    [beneficiary |-> b,
     transaction_count |-> Cardinality(RowsOf(frame, b)),
     high_risk_txns |-> HighRiskCount(frame, b),
     total_amount |-> SumAmounts(frame, RowsOf(frame, b)),
     alert |-> "Potential Identity Fraud"]

AlertStrict(frame, b) ==
    [Alert(frame, b) EXCEPT !.high_risk_txns = HighRiskCountStrict(frame, b)]

\* The alerts of the beneficiaries in bs, in the order of value_counts():
\* larger count first, equal counts in order of first appearance.
RECURSIVE AlertsInOrder(_, _)
AlertsInOrder(frame, bs) ==
    IF bs = {} THEN <<>>
    ELSE LET first(b) == CHOOSE j \in RowsOf(frame, b) : \A k \in RowsOf(frame, b) : j <= k
             n(b)     == Cardinality(RowsOf(frame, b))
             b0 == CHOOSE b \in bs : \A o \in bs :
                        n(b) > n(o) \/ (n(b) = n(o) /\ first(b) <= first(o))
         IN  <<Alert(frame, b0)>> \o AlertsInOrder(frame, bs \ {b0})

DetectDuplicatesStrict(frame) ==
    IF "beneficiary_id" \notin frame.columns THEN <<>>
    ELSE LET counted == {frame.rows[j].beneficiary_id : j \in DOMAIN frame.rows} \ {NaN}
             flagged == {b \in counted :
                            /\ Cardinality(RowsOf(frame, b)) > DuplicateMinCount
                            /\ HighRiskCountStrict(frame, b) > 0}
             alerts  == AlertsInOrder(frame, flagged)
         IN  [i \in DOMAIN alerts |-> AlertStrict(frame, alerts[i].beneficiary)]

\* detect_duplicates(df): value_counts() leaves missing identifiers out; an
\* alert for every beneficiary counted more than once with a row at 50 or above.
detect_duplicates(frame) ==
    IF "beneficiary_id" \notin frame.columns THEN <<>>
    ELSE LET counted == {frame.rows[j].beneficiary_id : j \in DOMAIN frame.rows} \ {NaN}
             flagged == {b \in counted :
                            /\ Cardinality(RowsOf(frame, b)) > DuplicateMinCount
                            /\ HighRiskCount(frame, b) > 0}
         IN  AlertsInOrder(frame, flagged)

----------------------------------------------------------------------------
(* Properties of detect_fraud *)

Called == ret.status # "none"

Returned == ret.status = "returned"

LibFailed == ret.lib \in {"fit_raises", "score_raises"}

\* C1: on every batch on which detect_fraud returns, each returned row has a
\* risk_score in 0..100 and the risk_level of the threshold mapping: Low
\* below 50, Medium from 50 and below 75, High from 75.
C1_ScoreRangeAndLevel ==
    Returned =>
        \A i \in DOMAIN ret.out.frame.rows :
            LET x == ret.out.frame.risk_score[i]
                l == ret.out.frame.risk_level[i]
            IN  /\ x \in 0..100
                /\ l = "Low" <=> x < 50
                /\ l = "Medium" <=> (50 <= x /\ x < 75)
                /\ l = "High" <=> x >= 75

\* A returned batch with a Medium row and a Low row.
C1_Witness ==
    /\ Returned
    /\ \E i, j \in DOMAIN ret.out.frame.rows :
        /\ ret.out.frame.risk_level[i] = "Medium" /\ ret.out.frame.risk_score[i] >= 50
        /\ ret.out.frame.risk_level[j] = "Low" /\ ret.out.frame.risk_score[j] < 50

\* C2: on every batch with an amount column detect_fraud completes and
\* returns the input rows in their order with the three annotation columns,
\* whether the anomaly model fits or fails and whichever optional columns
\* are absent.
C2_AlwaysReturnsAnnotatedBatch ==
    Called =>
        /\ Returned
        /\ ret.out.frame.rows = df.rows
        /\ Annotations \subseteq ret.out.frame.columns
        /\ Len(ret.out.frame.risk_score) = Len(df.rows)
        /\ Len(ret.out.frame.risk_level) = Len(df.rows)
        /\ Len(ret.out.frame.fraud_indicators) = Len(df.rows)

\* C5: a call on an instance that has scored other batches gives the same
\* rule scores, anomaly scores, risk scores and risk levels as the call on a
\* fresh instance.
C5_CallsIndependent ==
    Called => ret.out = Outcome(DetectFraud(FreshModel, df, ret.lib))

\* A second call on an instance whose model was fitted on a shorter batch.
C5_Witness ==
    /\ Called
    /\ ret.refit
    /\ ret.lib = "ok"
    /\ Len(df.rows) >= 2
    /\ ret.out.ml_scores.values.forest.X = Features(df)

\* C7: when fitting or scoring with the anomaly model fails, detect_fraud
\* still returns, the anomaly score of every row is 0 and each risk_score is
\* floor(0.6 * rule_score).
C7_FallbackScoresByRulesAlone ==
    (Called /\ LibFailed) =>
        /\ Returned
        /\ \A i \in DOMAIN df.rows :
            /\ ret.out.ml_scores.values[i] = 0
            /\ ret.out.frame.risk_score[i] = (3 * ret.out.rule_scores[i]) \div 5

\* A failed fit on a batch with a row whose rules alone give risk_score 51.
C7_Witness ==
    /\ Called
    /\ LibFailed
    /\ Returned
    /\ \E i \in DOMAIN df.rows :
        ret.out.rule_scores[i] = 85 /\ ret.out.frame.risk_score[i] = 51

\* C8: a batch of one transaction has rule score 15 when its amount is a
\* multiple of 1000 and 0 otherwise, anomaly score 0, and is returned with
\* risk_level Low and, unless the amount is round, risk_score 0.
C8_SingleTransaction ==
    (Called /\ Len(df.rows) = 1) =>
        /\ ret.out.rule_scores[1] = IF df.rows[1].amount % 1000 = 0 THEN 15 ELSE 0
        /\ Returned
        /\ ret.out.ml_scores.values[1] = 0
        /\ ret.out.frame.risk_level[1] = "Low"
        /\ df.rows[1].amount % 1000 # 0 => ret.out.frame.risk_score[1] = 0

\* C9: a call of detect_fraud, returning or raising, leaves the caller's
\* batch as it was: same rows, same columns, same values.
C9_CallerBatchUnchanged ==
    [][(\E lib \in LibOutcomes : detect_fraud(lib)) => df' = df]_vars

\* A call has returned an annotated copy and the caller's batch has no
\* annotation column.
C9_Witness ==
    /\ Returned
    /\ Annotations \subseteq ret.out.frame.columns
    /\ df.columns \cap Annotations = {}
    /\ df.risk_score = <<>>

----------------------------------------------------------------------------
(* _apply_rules on its own: a caller builds a batch, scores it with the     *)
(* rules, raises one amount and scores the batch again.                    *)

RuleColumns == {"beneficiary_id", "timestamp", "account_number"}
RuleAmounts == <<1000, 1500>>
RaisedAmounts == {1500, 2000, 2500}

\* Rows are numbered: amount, then beneficiary, then account.
RuleKeys(cols) ==
    {k \in 0..7 :
        /\ "beneficiary_id" \notin cols => (k \div 2) % 2 = 0
        /\ "account_number" \notin cols => k % 2 = 0}

RuleRow(cols, k) ==
    MakeRow(cols, RuleAmounts[(k \div 4) + 1], Beneficiaries[((k \div 2) % 2) + 1],
            Accounts[(k % 2) + 1], NA, NA, NA)

KeyOf(cols, r) == CHOOSE k \in RuleKeys(cols) : RuleRow(cols, k) = r

RuleInit ==
    /\ df \in {EmptyFrame(c) : c \in SUBSET RuleColumns}
    /\ model = FreshModel
    /\ ret = NoCall
    /\ scores = <<>>
    /\ prev = NoPrev
    /\ row = NoRow
    /\ reasons = <<>>
    /\ duplicates = <<>>

\* The caller appends a row.  Batches are built in row-number order: the
\* rules select rows by column masks, never by position.
RulesAddRow(k) ==
    /\ Len(df.rows) < MaxRuleRows
    /\ prev.idx = 0
    /\ df.rows # <<>> => k >= KeyOf(df.columns, df.rows[Len(df.rows)])
    /\ df' = [df EXCEPT !.rows = Append(@, RuleRow(df.columns, k))]
    /\ scores' = <<>>
    /\ UNCHANGED <<model, ret, prev, row, reasons, duplicates>>

\* scores = self._apply_rules(df)
RulesApply ==
    /\ df.rows # <<>>
    /\ scores = <<>>
    /\ scores' = [i \in DOMAIN df.rows |-> RuleTrace(df, i)]
    /\ UNCHANGED <<df, model, ret, prev, row, reasons, duplicates>>

Raised(frame, i, a) == [frame EXCEPT !.rows[i].amount = a]

\* The caller raises the amount of row i to a, above the 99th percentile of
\* the batch as it then is, and scores the batch again.
RulesRaise(i, a) ==
    /\ scores # <<>>
    /\ prev.idx = 0
    /\ i \in DOMAIN df.rows
    /\ a > df.rows[i].amount
    /\ Above(a, Quantile100(Amounts(Raised(df, i, a)), 99))
    /\ prev' = [idx |-> i, amount |-> df.rows[i].amount,
                above99 |-> Above(df.rows[i].amount, Quantile100(Amounts(df), 99)),
                trace |-> scores[i]]
    /\ df' = Raised(df, i, a)
    /\ scores' = [j \in DOMAIN df.rows |-> RuleTrace(Raised(df, i, a), j)]
    /\ UNCHANGED <<model, ret, row, reasons, duplicates>>

RuleNext ==
    \/ \E k \in RuleKeys(df.columns) : RulesAddRow(k)
    \/ RulesApply
    \/ \E i \in 1..(MaxRuleRows + 1), a \in RaisedAmounts : RulesRaise(i, a)

SpecRules == RuleInit /\ [][RuleNext]_vars


----------------------------------------------------------------------------
(* Properties of _apply_rules *)

\* The burst contribution Section 4.1 gives a row whose beneficiary has
\* `count` transactions in the batch.
ExpectedBurst(count) ==
    IF count > 2
    THEN (IF 20 * (count - 1) < 30 THEN 20 * (count - 1) ELSE 30)
    ELSE 0

SameBeneficiary(i) ==
    Cardinality({j \in DOMAIN df.rows :
        df.rows[j].beneficiary_id = df.rows[i].beneficiary_id})

\* C10 as stated: in every batch with a beneficiary_id column, whatever other
\* columns it has, a row of a beneficiary with more than 2 transactions gains
\* min(20 * (count - 1), 30) and the other rows gain nothing from the rule.
C10_BurstWithBeneficiaryColumn ==
    (scores # <<>> /\ "beneficiary_id" \in df.columns) =>
        \A i \in DOMAIN df.rows : scores[i].burst = ExpectedBurst(SameBeneficiary(i))

\* C10 amended: the gain is given when the batch has both a beneficiary_id
\* and a timestamp column; when either is absent no row gains anything from
\* the rule.
C10_BurstNeedsTimestamp ==
    scores # <<>> =>
        \A i \in DOMAIN df.rows :
            scores[i].burst =
                IF {"beneficiary_id", "timestamp"} \subseteq df.columns
                THEN ExpectedBurst(SameBeneficiary(i))
                ELSE 0

\* A batch with both columns in which one beneficiary has three or more rows,
\* each gaining 30, and another row gains nothing.
C10_Witness ==
    /\ scores # <<>>
    /\ {"beneficiary_id", "timestamp"} \subseteq df.columns
    /\ \E i, j \in DOMAIN df.rows :
        /\ SameBeneficiary(i) > 2 /\ scores[i].burst = 30
        /\ SameBeneficiary(j) <= 2 /\ scores[j].burst = 0

\* C6 as stated: a transaction whose amount is raised above the batch's
\* 99th-percentile threshold has its clamped rule score increase by at least 40.
C6_RaisedScoreGains40 ==
    prev.idx # 0 => scores[prev.idx].total >= prev.trace.total + 40

\* C6 amended: a transaction that was not above the 99th-percentile threshold
\* and is raised above it gains at least 40 from the two percentile rules and
\* has a clamped rule score of at least 70 afterwards; the clamped score rises
\* by at least 40 unless it ends at the clamp of 100 or the raise takes the
\* amount off a multiple of 1000.
C6_RaisedPercentileGain ==
    (prev.idx # 0 /\ ~prev.above99) =>
        LET after  == scores[prev.idx]
            before == prev.trace
        IN  /\ (after.high + after.very_high) - (before.high + before.very_high) >= 40
            /\ after.total >= 70
            /\ \/ after.total >= before.total + 40
               \/ after.total = 100
               \/ (before.round > 0 /\ after.round = 0)

\* A raise from below the threshold whose clamped gain is under 40 because the
\* score ends at 100.
C6_Witness ==
    /\ prev.idx # 0
    /\ ~prev.above99
    /\ scores[prev.idx].total = 100
    /\ scores[prev.idx].total < prev.trace.total + 40
    /\ scores[prev.idx].round = prev.trace.round


----------------------------------------------------------------------------
(* _explain_fraud on its own: one call on a row and an anomaly score *)

ExplainAmounts == {0, 999, 10000, 10001, 50000, 50001, 100000, 100001, 120000}
ExplainSchemes == {NA, "NREGA", "PDS", "Pension"}
ExplainFlags == {NA, "False", "True"}
ExplainMlScores == {0, 40, 41, 100}

ExplainInit ==
    /\ row \in [amount : ExplainAmounts, scheme : ExplainSchemes,
                duplicate_flag : ExplainFlags, ml_score : ExplainMlScores,
                called : {FALSE}]
    /\ reasons = <<>>
    /\ df = EmptyFrame({})
    /\ model = FreshModel
    /\ ret = NoCall
    /\ scores = <<>>
    /\ prev = NoPrev
    /\ duplicates = <<>>

\* reasons = self._explain_fraud(row, rule_score, ml_score)
Explain ==
    /\ ~row.called
    /\ reasons' = _explain_fraud(row, 0, row.ml_score)
    /\ row' = [row EXCEPT !.called = TRUE]
    /\ UNCHANGED <<df, model, ret, scores, prev, duplicates>>

ExplainNext == Explain

SpecExplain == ExplainInit /\ [][ExplainNext]_vars

ReasonOrder == <<"high_amount", "duplicate", "nrega", "pds", "ml", "round", "default">>

ReasonPosition(reason) == CHOOSE i \in DOMAIN ReasonOrder : ReasonOrder[i] = reason

ReasonHolds(reason) ==
    CASE reason = "high_amount" -> row.amount > 100000
      [] reason = "duplicate"   -> row.duplicate_flag = "True"
      [] reason = "nrega"       -> row.scheme = "NREGA" /\ row.amount > 50000
      [] reason = "pds"         -> row.scheme = "PDS" /\ row.amount > 10000
      [] reason = "ml"          -> row.ml_score > 40
      [] reason = "round"       -> row.amount % 1000 = 0
      [] reason = "default"     ->
            /\ ~(row.amount > 100000)
            /\ row.duplicate_flag # "True"
            /\ ~(row.scheme = "NREGA" /\ row.amount > 50000)
            /\ ~(row.scheme = "PDS" /\ row.amount > 10000)
            /\ ~(row.ml_score > 40)
            /\ row.amount % 1000 # 0

\* C3: the reasons of a row are never empty, each reason is listed exactly
\* when its condition holds, the default reason exactly when no other does,
\* and the reasons stand in the order high amount, duplicate flag, NREGA
\* ceiling, PDS ceiling, ML pattern, round amount.
C3_ReasonsCompleteAndOrdered ==
    row.called =>
        /\ reasons # <<>>
        /\ \A reason \in Range(ReasonOrder) :
            reason \in Range(reasons) <=> ReasonHolds(reason)
        /\ \A i, j \in DOMAIN reasons :
            i < j => ReasonPosition(reasons[i]) < ReasonPosition(reasons[j])

\* A row for which five reasons hold, the ML reason before the round-amount one.
C3_Witness ==
    /\ row.called
    /\ reasons = <<"high_amount", "duplicate", "nrega", "ml", "round">>

----------------------------------------------------------------------------
(* detect_duplicates on its own: one call on a scored batch *)

DupColumns == {Annotations, Annotations \cup {"beneficiary_id"}}
DupBeneficiaries == {"B1", "B2", NaN}
DupScores == {0, 49, 50, 75}

DupInit ==
    /\ df \in {EmptyFrame(c) : c \in DupColumns}
    /\ model = FreshModel
    /\ ret = NoCall
    /\ scores = <<>>
    /\ prev = NoPrev
    /\ row = NoRow
    /\ reasons = <<>>
    /\ duplicates = <<>>

\* The scored batch gets one more row: a beneficiary and a risk_score.
DupAddRow(b, x) ==
    /\ ret.status = "none"
    /\ Len(df.rows) < MaxDupRows
    /\ df' = [df EXCEPT
                !.rows = Append(@, MakeRow(df.columns, 1000, b, NA, NA, NA, NA)),
                !.risk_score = Append(@, x),
                !.risk_level = Append(@, RiskLevel(x)),
                !.fraud_indicators = Append(@, <<"default">>)]
    /\ UNCHANGED <<model, ret, scores, prev, row, reasons, duplicates>>

\* duplicates = detector.detect_duplicates(results_df)
DetectDuplicates ==
    /\ ret.status = "none"
    /\ duplicates' = detect_duplicates(df)
    /\ ret' = [ret EXCEPT !.status = "duplicates"]
    /\ UNCHANGED <<df, model, scores, prev, row, reasons>>

DupNext ==
    \/ \E b \in DupBeneficiaries, x \in DupScores : DupAddRow(b, x)
    \/ DetectDuplicates

SpecDup == DupInit /\ [][DupNext]_vars

BatchCount(b) ==
    Cardinality({j \in DOMAIN df.rows : df.rows[j].beneficiary_id = b})

BatchHighRisk(b) ==
    Cardinality({j \in DOMAIN df.rows :
        df.rows[j].beneficiary_id = b /\ df.risk_score[j] >= 50})

AlertsFor(b) == {i \in DOMAIN duplicates : duplicates[i].beneficiary = b}

\* C4: detect_duplicates gives exactly one alert for a beneficiary with more
\* than one transaction of which at least one has risk_score >= 50, and none
\* for any other; the alert carries the beneficiary's number of rows and the
\* number of them at 50 or above; without a beneficiary column, or when
\* nobody qualifies, the result is empty.
C4_OneAlertPerFlaggedBeneficiary ==
    ret.status = "duplicates" =>
        /\ \A b \in {"B1", "B2"} :
            IF /\ "beneficiary_id" \in df.columns
               /\ BatchCount(b) > 1
               /\ BatchHighRisk(b) >= 1
            THEN /\ Cardinality(AlertsFor(b)) = 1
                 /\ \A i \in AlertsFor(b) :
                     /\ duplicates[i].transaction_count = BatchCount(b)
                     /\ duplicates[i].high_risk_txns = BatchHighRisk(b)
            ELSE AlertsFor(b) = {}
        /\ \A i \in DOMAIN duplicates : duplicates[i].beneficiary \in {"B1", "B2"}

\* Three transactions of one beneficiary, one of them scoring exactly 50 and
\* one 75: one alert with count 3 and 2 high-risk transactions.
C4_Witness ==
    /\ ret.status = "duplicates"
    /\ Len(duplicates) = 1
    /\ duplicates[1].transaction_count = 3
    /\ duplicates[1].high_risk_txns = 2
    /\ \E j \in DOMAIN df.rows : df.risk_score[j] = 50

============================================================================
